---- MODULE Spec2Model ----
(***************************************************************************)
(* Parrot (deadaf/Parrot): the telephone relay of cogs/fun (fun.dial) and  *)
(* the waiting helpers of core/Context.py (wait_for, multiple_wait_for,    *)
(* wait_for_till, prompt, confirm), each as a state machine over the       *)
(* framework's event dispatch and timers.                                  *)
(***************************************************************************)
EXTENDS Integers, Sequences, FiniteSets, TLC

\* ------------------------------------------------------------------ bounds
\* Messages the relay loop may accept in one call.
MaxMsgs == 2
\* Seconds the clock advances in one step of time.
Tick == 30
\* The clock stops advancing here.
MaxTime == 180

\* ------------------------------------------------------- program constants
\* bot.wait_for('message', check=check, timeout=60)         (ring phase)
RingTimeout == 60
\* bot.wait_for('message', check=check, timeout=60.0)       (relay loop)
TalkTimeout == 60
\* ini = time.time() + 120
CallWindow == 120
\* if ini - time.time() <= 60
LimitMargin == 60

\* ---------------------------------------------------------------- the world
Guilds == {"A", "B"}
\* ctx.guild: the server the command is invoked in.
CtxGuild == "A"
\* The telephone channel id a server's record holds when it resolves.
TelChannel(g) == IF g = "A" THEN "telA" ELSE "telB"
\* Channels of the invoking server the command can be typed in.
CtxChannels == {"telA", "lobbyA"}
\* Every channel a message can appear in.
Channels == {"telA", "lobbyA", "telB"}
\* The bot's own name, and the people who write.
BotName == "Parrot"
Authors == {"alice"}
IsBot(a) == a = BotName
\* What people type (a content is a sequence of words).
Contents == {<<"PickUp">>, <<"hangup">>, <<"hi">>}

\* str.lower() on the words that occur.
LowerWord(w) ==
    IF w = "PickUp" THEN "pickup" ELSE w
Lower(c) == [i \in 1..Len(c) |-> LowerWord(c[i])]

\* A guild without a document in the telephone collection: find_one gives None.
NoRecord == [found |-> FALSE, channel |-> "deleted", is_line_busy |-> FALSE, blocked |-> {}]
Records(g) ==
    {NoRecord} \cup
    [found : {TRUE}, channel : {TelChannel(g), "deleted"},
     is_line_busy : BOOLEAN, blocked : SUBSET (Guilds \ {g})]

VARIABLES
    now,           \* time.time()
    \* ---- fun.dial
    db,            \* parrot_db['telephone']: guild id -> its record
    server,        \* dial's argument: the guild called
    channel,       \* ctx.channel
    pc,            \* where dial stands
    deadline,      \* when the pending bot.wait_for times out
    ini,           \* ini = time.time() + 120
    talk,          \* _talk: the message that ended the ring phase
    talk_message,  \* the message the relay loop is handling
    sent,          \* every message the bot has sent, in order
    pending,       \* indices of sent whose gateway event is not dispatched yet
    writes,        \* every telephone_update(guild, 'is_line_busy', v), in order
    nacc,          \* how many messages the relay loop has accepted
    \* ---- Context.wait_for, multiple_wait_for, wait_for_till
    wop,           \* which of the three is called
    wpar,          \* its arguments
    tasks,         \* every Context.wait_for started, in order
    events,        \* every event the bot dispatched, in order
    mpc,           \* where multiple_wait_for stands
    mcall,         \* the timeout and return_when of the running multiple_wait_for
    mfirst,        \* index in tasks of the first wait it started
    mdeadline,     \* when its asyncio.wait times out
    mresult,       \* the pair it returned: done and pending task indices
    fpc,           \* where wait_for_till stands
    wake,          \* when its release(after) ends
    windowEnd,     \* now = time.time() + _for
    rounds,        \* the multiple_wait_for calls it has made
    done_result,   \* done_result
    \* ---- Context.prompt and ConfirmationView
    ppar,          \* prompt's arguments
    ppc,           \* where prompt stands
    vvalue,        \* view.value
    vstopped,      \* the view has finished (stop() or its timeout)
    vexpiry,       \* when the view times out
    running,       \* button callbacks that are past their first await
    pmessage,      \* view.message: "none", "shown" or "deleted"
    presult,       \* what prompt returned
    presses,       \* every interaction with the view, in order
    \* ---- Context.confirm
    cpar,          \* confirm's arguments
    cpc,           \* where confirm stands
    cdeadline,     \* when its bot.wait_for times out
    cmessage,      \* the prompt message: "none", "sent" or "deleted"
    cresult,       \* what confirm returned
    reactions,     \* every raw_reaction_add dispatched, in order
    epar,          \* Context.error: the channel permissions, the DM, the embed
    epc,           \* its position: "sending", "waiting", "done", "raised"
    emsg,          \* the error message: "none", "sent" or "deleted"
    ecolor,        \* the colour of the embed that was sent
    edeadline,     \* when its wait_for("message_delete") times out
    eresult,       \* what error returned
    deletedIn,     \* per message: the position error was at when it was deleted
    collection,    \* tags[guild]: the tag documents of the server, by id
    spc,           \* _show_tag: "idle", "found" (find_one done), "sent"
    spar,          \* its tag, ctx.author, ctx.channel.nsfw and msg_ref
    sdata,         \* the document its find_one returned
    dpc,           \* _delete_tag: "idle", "found", "deleted", "raised"
    dpar,          \* its tag and ctx.author
    ddata,         \* the document its find_one returned
    outbox,        \* every message the tag handlers sent, in order
    ops            \* handler invocations so far

dialVars == <<db, server, channel, pc, deadline, ini, talk, talk_message,
              sent, pending, writes, nacc>>
waitVars == <<wop, wpar, tasks, events, mpc, mcall, mfirst, mdeadline, mresult,
              fpc, wake, windowEnd, rounds, done_result>>
promptVars == <<ppar, ppc, vvalue, vstopped, vexpiry, running, pmessage, presult,
                presses>>
confirmVars == <<cpar, cpc, cdeadline, cmessage, cresult, reactions>>

errorVars == <<epar, epc, emsg, ecolor, edeadline, eresult, deletedIn>>

tagVars == <<collection, spc, spar, sdata, dpc, dpar, ddata, outbox, ops>>

vars == <<now, dialVars, waitVars, promptVars, confirmVars, errorVars, tagVars>>

\* timeout=None
NoTimeout == -1

\* Each part of the program is checked on its own: the others stand still.
NoDial ==
    /\ db = [g \in Guilds |-> NoRecord] /\ server = CtxGuild /\ channel = "telA"
    /\ pc = "done" /\ deadline = 0 /\ ini = 0
    /\ talk = <<>> /\ talk_message = <<>> /\ sent = <<>> /\ pending = {}
    /\ writes = <<>> /\ nacc = 0
NoWait ==
    /\ wop = "none" /\ wpar = <<>> /\ tasks = <<>> /\ events = <<>>
    /\ mpc = "idle" /\ mcall = <<>> /\ mfirst = 1 /\ mdeadline = NoTimeout
    /\ mresult = <<>> /\ fpc = "idle" /\ wake = 0 /\ windowEnd = 0 /\ rounds = 0
    /\ done_result = <<>>
NoPrompt ==
    /\ ppar = <<>> /\ ppc = "returned" /\ vvalue = "None" /\ vstopped = TRUE
    /\ vexpiry = NoTimeout /\ running = <<>> /\ pmessage = "none"
    /\ presult = "None" /\ presses = <<>>
NoConfirm ==
    /\ cpar = <<>> /\ cpc = "returned" /\ cdeadline = NoTimeout
    /\ cmessage = "none" /\ cresult = "None" /\ reactions = <<>>
NoError ==
    /\ epar = <<>> /\ epc = "done" /\ emsg = "none" /\ ecolor = "none"
    /\ edeadline = NoTimeout /\ eresult = "None" /\ deletedIn = <<>>
NoTags ==
    /\ collection = <<>> /\ spc = "idle" /\ spar = <<>> /\ sdata = <<>>
    /\ dpc = "idle" /\ dpar = <<>> /\ ddata = <<>> /\ outbox = <<>> /\ ops = 0

NoMessage == [channel |-> "none", author |-> "none", bot |-> FALSE,
              content |-> <<>>, origin |-> "none"]

\* number = server.id
number == server
self_guild == db[CtxGuild]
target_guild == db[number]
\* bot.get_channel(id): None for a deleted or invisible channel.
get_channel(id) == IF id \in Channels THEN id ELSE "none"
target_channel == get_channel(target_guild.channel)

\* Refusal without the 'Line busy!' return.
RefusalNoBusy ==
    IF server = CtxGuild THEN "self call"
    ELSE IF ~self_guild.found THEN "no line here"
    ELSE IF ~target_guild.found THEN "no line there"
    ELSE IF target_channel = "none" THEN "calling failed: channel"
    ELSE IF (number \in self_guild.blocked) \/ (CtxGuild \in target_guild.blocked)
         THEN "calling failed: blocked"
    ELSE "ok"

\* The early returns of dial, in the order of the code.
Refusal ==
    IF server = CtxGuild THEN "self call"
    ELSE IF ~self_guild.found THEN "no line here"
    ELSE IF ~target_guild.found THEN "no line there"
    ELSE IF target_guild.is_line_busy THEN "line busy"
    ELSE IF target_channel = "none" THEN "calling failed: channel"
    ELSE IF (number \in self_guild.blocked) \/ (CtxGuild \in target_guild.blocked)
         THEN "calling failed: blocked"
    ELSE "ok"

\* A notice the bot writes itself: its text starts in the channel it is sent to.
Notice(to, text) == [to |-> to, content |-> <<text>>, of |-> 0, origin |-> to]

\* The gateway's message event for the bot's own i-th message.
OwnMessage(i) == [channel |-> sent[i].to, author |-> BotName, bot |-> TRUE,
                  content |-> sent[i].content, origin |-> sent[i].origin]

\* Sending appends to the log and leaves the message's gateway event to come.
Send(msgs) ==
    /\ sent' = sent \o msgs
    /\ pending' = pending \cup ((Len(sent) + 1)..(Len(sent) + Len(msgs)))

\* def check(m) of the ring phase.
RingCheck(m) ==
    /\ Lower(m.content) \in {<<"pickup">>, <<"hangup">>}
    /\ (m.channel = channel \/ m.channel = target_channel)

\* def check(m) of the relay loop: `or` binds weaker than `and`.
TalkCheck(m) ==
    (m.channel = target_channel) \/ ((m.channel = channel) /\ ~m.bot)

InitDial ==
    /\ db \in {d \in [Guilds -> UNION {Records(g) : g \in Guilds}] :
                 \A g \in Guilds : d[g] \in Records(g)}
    /\ server \in Guilds
    /\ channel \in CtxChannels
    /\ pc = "start"
    /\ now = 0
    /\ deadline = 0
    /\ ini = 0
    /\ talk = NoMessage
    /\ talk_message = NoMessage
    /\ sent = <<>>
    /\ pending = {}
    /\ writes = <<>>
    /\ nacc = 0
    /\ NoWait /\ NoPrompt /\ NoConfirm /\ NoError /\ NoTags

\* dial up to its first wait: the checks, "Calling to ...", the incoming-call
\* notice, and bot.wait_for registered.  (The ping message of the try block is
\* a coroutine that is never awaited: nothing is sent by it.)
DialStart ==
    /\ pc = "start"
    /\ IF Refusal # "ok"
       THEN /\ Send(<<Notice(channel, Refusal)>>)
            /\ pc' = "done"
            /\ UNCHANGED deadline
       ELSE /\ Send(<<Notice(channel, "Calling"),
                      Notice(target_channel, "Incoming call")>>)
            /\ pc' = "ring"
            /\ deadline' = now + RingTimeout
    /\ UNCHANGED <<db, server, channel, now, ini, talk, talk_message, writes, nacc>>
    /\ UNCHANGED <<waitVars, promptVars, confirmVars, errorVars, tagVars>>

\* A message event reaches the handler: a registered wait_for whose check
\* passes takes it, anything else leaves the handler as it is.
Deliver(m) ==
    IF pc = "ring" /\ RingCheck(m)
    THEN /\ talk' = m
         /\ pc' = "answered"
         /\ UNCHANGED <<talk_message, nacc>>
    ELSE IF pc = "talk" /\ TalkCheck(m) /\ nacc < MaxMsgs
    THEN /\ talk_message' = m
         /\ nacc' = nacc + 1
         /\ pc' = "relay"
         /\ UNCHANGED talk
    ELSE UNCHANGED <<talk, talk_message, nacc, pc>>

\* Somebody writes in a channel while a wait_for listens (events of one
\* channel arrive in order; with no listener a message changes nothing).
Post(a, ch, c) ==
    /\ pc \in {"ring", "talk"}
    /\ \A i \in pending : sent[i].to # ch
    /\ Deliver([channel |-> ch, author |-> a, bot |-> IsBot(a), content |-> c,
                origin |-> ch])
    /\ UNCHANGED <<db, server, channel, now, deadline, ini, sent, pending, writes>>
    /\ UNCHANGED <<waitVars, promptVars, confirmVars, errorVars, tagVars>>

\* The gateway event of one of the bot's own messages is dispatched.
DispatchOwn(i) ==
    /\ pc # "done"
    /\ i \in pending
    /\ \A j \in pending : sent[j].to = sent[i].to => i <= j
    /\ pending' = pending \ {i}
    /\ Deliver(OwnMessage(i))
    /\ UNCHANGED <<db, server, channel, now, deadline, ini, sent, writes>>
    /\ UNCHANGED <<waitVars, promptVars, confirmVars, errorVars, tagVars>>

\* telephone_update(ctx.guild.id, 'is_line_busy', v); telephone_update(number, ...)
UpdateBoth(v) ==
    /\ db' = [g \in Guilds |->
                IF g \in {CtxGuild, number} /\ db[g].found
                THEN [db[g] EXCEPT !.is_line_busy = v] ELSE db[g]]
    /\ writes' = writes \o <<[guild |-> CtxGuild, value |-> v],
                             [guild |-> number, value |-> v]>>

\* The except branch telling only the called channel.
InactiveNoticeCalledOnly ==
    <<Notice(target_channel, "Line disconnected: inactive")>>

\* What the except branch of a wait sends.
InactiveNotices ==
    <<Notice(target_channel, "Line disconnected: inactive"),
      Notice(channel, "Line disconnected: inactive")>>

\* except Exception of the ring phase: nothing arrived for 60 seconds.
RingTimedOut ==
    /\ pc = "ring"
    /\ now >= deadline
    /\ Send(InactiveNotices)
    /\ UpdateBoth(FALSE)
    /\ pc' = "done"
    /\ UNCHANGED <<server, channel, now, deadline, ini, talk, talk_message, nacc>>
    /\ UNCHANGED <<waitVars, promptVars, confirmVars, errorVars, tagVars>>

\* if _talk.content.lower() == 'hangup'
RingHangup ==
    /\ pc = "answered"
    /\ Lower(talk.content) = <<"hangup">>
    /\ Send(<<Notice(channel, "Disconnected"), Notice(target_channel, "Disconnected")>>)
    /\ UpdateBoth(FALSE)
    /\ pc' = "done"
    /\ UNCHANGED <<server, channel, now, deadline, ini, talk, talk_message, nacc>>
    /\ UNCHANGED <<waitVars, promptVars, confirmVars, errorVars, tagVars>>

\* elif _talk.content.lower() == 'pickup': the two "Connected" messages.
RingPickup ==
    /\ pc = "answered"
    /\ Lower(talk.content) = <<"pickup">>
    /\ Send(<<Notice(channel, "Connected"), Notice(target_channel, "Connected")>>)
    /\ pc' = "connecting"
    /\ UNCHANGED <<db, server, channel, now, deadline, ini, talk, talk_message,
                   writes, nacc>>
    /\ UNCHANGED <<waitVars, promptVars, confirmVars, errorVars, tagVars>>

\* The two writes of True, ini, and the relay loop's first wait.
Connect ==
    /\ pc = "connecting"
    /\ UpdateBoth(TRUE)
    /\ ini' = now + CallWindow
    /\ pc' = "talk"
    /\ deadline' = now + TalkTimeout
    /\ UNCHANGED <<server, channel, now, talk, talk_message, sent, pending, nacc>>
    /\ UNCHANGED <<waitVars, promptVars, confirmVars, errorVars, tagVars>>

\* except Exception of the relay loop.
TalkTimedOut ==
    /\ pc = "talk"
    /\ now >= deadline
    /\ Send(InactiveNotices)
    /\ UpdateBoth(FALSE)
    /\ pc' = "done"
    /\ UNCHANGED <<server, channel, now, deadline, ini, talk, talk_message, nacc>>
    /\ UNCHANGED <<waitVars, promptVars, confirmVars, errorVars, tagVars>>

\* if talk_message.content.lower() == 'hangup'
RelayHangup ==
    /\ pc = "relay"
    /\ Lower(talk_message.content) = <<"hangup">>
    /\ UpdateBoth(FALSE)
    /\ Send(<<Notice(channel, "Disconnected"), Notice(target_channel, "Disconnected")>>)
    /\ pc' = "done"
    /\ UNCHANGED <<server, channel, now, deadline, ini, talk, talk_message, nacc>>
    /\ UNCHANGED <<waitVars, promptVars, confirmVars, errorVars, tagVars>>

\* Where the relay loop sends a message of channel ch.
Forwards(m) ==
    IF m.channel = target_channel
    THEN <<[to |-> channel, content |-> <<m.author>> \o m.content,
            of |-> nacc, origin |-> m.origin]>>
    ELSE IF m.channel = channel
    THEN <<[to |-> target_channel, content |-> <<m.author>> \o m.content,
            of |-> nacc, origin |-> m.origin]>>
    ELSE <<>>

\* The two sends of the relay loop.
RelayForward ==
    /\ pc = "relay"
    /\ Lower(talk_message.content) # <<"hangup">>
    /\ Send(Forwards(talk_message))
    /\ pc' = "limit"
    /\ UNCHANGED <<db, server, channel, now, deadline, ini, talk, talk_message,
                   writes, nacc>>
    /\ UNCHANGED <<waitVars, promptVars, confirmVars, errorVars, tagVars>>

\* if ini - time.time() <= 60, else the next turn of the loop.
LimitCheck ==
    /\ pc = "limit"
    /\ IF ini - now <= LimitMargin
       THEN /\ Send(<<Notice(channel, "Disconnected: limit"),
                      Notice(target_channel, "Disconnected: limit")>>)
            /\ UpdateBoth(FALSE)
            /\ pc' = "done"
            /\ UNCHANGED deadline
       ELSE /\ pc' = "talk"
            /\ deadline' = now + TalkTimeout
            /\ UNCHANGED <<db, writes, sent, pending>>
    /\ UNCHANGED <<server, channel, now, ini, talk, talk_message, nacc>>
    /\ UNCHANGED <<waitVars, promptVars, confirmVars, errorVars, tagVars>>

\* Time passes while the handler waits; a timer that is due fires first.
TickDial ==
    /\ pc \in {"ring", "talk"}
    /\ now < deadline
    /\ now + Tick <= MaxTime
    /\ now' = now + Tick
    /\ UNCHANGED <<db, server, channel, pc, deadline, ini, talk, talk_message,
                   sent, pending, writes, nacc>>
    /\ UNCHANGED <<waitVars, promptVars, confirmVars, errorVars, tagVars>>

NextDial ==
    \/ DialStart
    \/ \E a \in Authors, ch \in Channels, c \in Contents : Post(a, ch, c)
    \/ \E i \in 1..Len(sent) : DispatchOwn(i)
    \/ RingTimedOut
    \/ RingHangup
    \/ RingPickup
    \/ Connect
    \/ TalkTimedOut
    \/ RelayHangup
    \/ RelayForward
    \/ LimitCheck
    \/ TickDial

SpecDial == InitDial /\ [][NextDial]_vars

\* ------------------------------------------------------- claims about dial
IncomingSent == \E i \in 1..Len(sent) : sent[i].content = <<"Incoming call">>
ConnectedSent == \E i \in 1..Len(sent) : sent[i].content = <<"Connected">>
RelayedSent == \E i \in 1..Len(sent) : sent[i].of # 0
BusyWritten(v) == writes = <<[guild |-> CtxGuild, value |-> v],
                            [guild |-> number, value |-> v]>>

\* C1 (as claimed): once the incoming-call notice is out, the call is connected
\* ('Connected' sent, is_line_busy written True) only if the 'pickup' that
\* ended the ring phase was written in the called server's channel.
C1_PickupOnlyFromCalledChannel ==
    ConnectedSent => (talk.channel = target_channel /\ talk.channel # channel)

\* C2: a ring phase in which no 'pickup'/'hangup' reached the handler ends at
\* the 60th second with the 'Line disconnected' notice in both channels and
\* is_line_busy = False written for both servers, and nothing else: no
\* 'Connected', no relayed message.
RingExpired == pc = "done" /\ IncomingSent /\ talk = NoMessage
CallAllowed ==
    /\ server # CtxGuild
    /\ db[CtxGuild].found /\ db[server].found
    /\ writes = <<>> => ~db[server].is_line_busy
    /\ db[server].channel \in Channels
    /\ server \notin db[CtxGuild].blocked
    /\ CtxGuild \notin db[server].blocked
Refusals == {"self call", "no line here", "no line there", "line busy",
             "calling failed: channel", "calling failed: blocked"}
Opposite(ch) == IF ch = target_channel THEN channel ELSE target_channel
C4_ForwardedOnceNeverBack ==
    /\ pc = "limit" =>
          /\ Cardinality({i \in 1..Len(sent) : sent[i].of = nacc}) = 1
          /\ sent[Len(sent)].of = nacc
          /\ sent[Len(sent)].to = Opposite(talk_message.channel)
          /\ sent[Len(sent)].content =
                <<talk_message.author>> \o talk_message.content
    /\ \A i \in 1..Len(sent) : sent[i].of # 0 => sent[i].to # sent[i].origin

\* ============================================================================
\* Context.wait_for, Context.multiple_wait_for, Context.wait_for_till
\* ============================================================================

\* ---------------------------------------------------------------- bounds
\* Events the bot dispatches in one run.
MaxEvents == 2
\* The clock of the waiting helpers stops advancing here.
WaitMaxTime == 3
\* The longest timeout, _for and after tried.
MaxTimeout == 1
MaxFor == 1
\* multiple_wait_for calls one wait_for_till may make.
MaxRounds == 2

\* The event lists tried: (event name, check) pairs.
EventLists == {<<"on_message">>, <<"message", "reaction_add">>}
\* What the bot dispatches.
EventNames == {"message", "reaction_add"}

\* if event_name.lower().startswith("on_"): event_name = event_name[3:].lower()
Normalize(name) == IF name = "on_message" THEN "message" ELSE name

WaitForArgs ==
    [timeout : {NoTimeout} \cup (1..MaxTimeout), suppress_error : BOOLEAN,
     error_message : BOOLEAN, functions : BOOLEAN,
     return_when : {"FIRST_COMPLETED"}, events : {<<"on_message">>},
     for : {0}, after : {0}]
MultipleWaitForArgs ==
    [timeout : {NoTimeout} \cup (1..MaxTimeout), suppress_error : BOOLEAN,
     error_message : {FALSE}, functions : {FALSE},
     return_when : {"FIRST_COMPLETED", "ALL_COMPLETED", "FIRST_EXCEPTION"},
     events : EventLists, for : {0}, after : {0}]
WaitForTillArgs ==
    [timeout : {NoTimeout}, suppress_error : {FALSE},
     error_message : {FALSE}, functions : {FALSE},
     return_when : {"FIRST_COMPLETED"}, events : EventLists,
     for : 0..MaxFor, after : 0..1]

\* A Context.wait_for that has not run yet.
NewTask(name, timeout) ==
    [event |-> name, timeout |-> timeout, state |-> "new", result |-> 0,
     deadline |-> NoTimeout, calls |-> <<>>]

Finished(t) == tasks[t].state \in {"returned", "none", "raised"}

\* What the except asyncio.TimeoutError branch ends in, were suppress_error ignored.
TimeoutOutcomeAlwaysRaise(par) == "raised"

\* if suppress_error: return None, else raise.
TimeoutOutcome(par) == IF par.suppress_error THEN "none" ELSE "raised"

\* The finally clause.
AfterCalls(par) == IF par.functions THEN <<"after_function">> ELSE <<>>

InitWait ==
    /\ now = 0
    /\ wop \in {"wait_for", "multiple_wait_for", "wait_for_till"}
    /\ wpar \in (CASE wop = "wait_for" -> WaitForArgs
                   [] wop = "multiple_wait_for" -> MultipleWaitForArgs
                   [] OTHER -> WaitForTillArgs)
    /\ tasks = IF wop = "wait_for"
               THEN <<NewTask(wpar.events[1], wpar.timeout)>> ELSE <<>>
    /\ events = <<>>
    /\ mpc = "idle"
    /\ mcall = [timeout |-> NoTimeout, return_when |-> "FIRST_COMPLETED"]
    /\ mfirst = 1
    /\ mdeadline = NoTimeout
    /\ mresult = [done |-> {}, pending |-> {}]
    /\ fpc = "idle"
    /\ wake = 0
    /\ windowEnd = 0
    /\ rounds = 0
    /\ done_result = <<>>
    /\ NoDial /\ NoPrompt /\ NoConfirm /\ NoError /\ NoTags

\* Context.wait_for up to its await: before_function, then bot.wait_for
\* registers the listener and its timer.
WaitForStart(t) ==
    /\ tasks[t].state = "new"
    /\ tasks' = [tasks EXCEPT
                   ![t].state = "listening",
                   ![t].event = Normalize(tasks[t].event),
                   ![t].calls = IF wpar.functions THEN <<"before_function">> ELSE <<>>,
                   ![t].deadline = IF tasks[t].timeout = NoTimeout THEN NoTimeout
                                   ELSE now + tasks[t].timeout]
    /\ UNCHANGED <<now, wop, wpar, events, mpc, mcall, mfirst, mdeadline, mresult,
                   fpc, wake, windowEnd, rounds, done_result>>
    /\ UNCHANGED <<dialVars, promptVars, confirmVars, errorVars, tagVars>>

\* The bot dispatches an event: every listener of that event whose check
\* passes gets it, returns it, and runs its finally clause.
Dispatch(name, ok) ==
    /\ wop # "none"
    /\ Len(events) < MaxEvents
    /\ events' = Append(events, [name |-> name, ok |-> ok, at |-> now])
    /\ tasks' = [t \in DOMAIN tasks |->
                   IF tasks[t].state = "listening" /\ tasks[t].event = name /\ ok
                   THEN [tasks[t] EXCEPT !.state = "returned",
                                         !.result = Len(events) + 1,
                                         !.calls = @ \o AfterCalls(wpar)]
                   ELSE tasks[t]]
    /\ UNCHANGED <<now, wop, wpar, mpc, mcall, mfirst, mdeadline, mresult,
                   fpc, wake, windowEnd, rounds, done_result>>
    /\ UNCHANGED <<dialVars, promptVars, confirmVars, errorVars, tagVars>>

\* except asyncio.TimeoutError: error_function, the error message, then None
\* or the exception again; finally after_function.
WaitForTimeout(t) ==
    /\ tasks[t].state = "listening"
    /\ tasks[t].deadline # NoTimeout
    /\ now >= tasks[t].deadline
    /\ tasks' = [tasks EXCEPT
                   ![t].state = TimeoutOutcome(wpar),
                   ![t].calls = @ \o (IF wpar.functions THEN <<"error_function">> ELSE <<>>)
                                  \o (IF wpar.error_message THEN <<"send">> ELSE <<>>)
                                  \o AfterCalls(wpar)]
    /\ UNCHANGED <<now, wop, wpar, events, mpc, mcall, mfirst, mdeadline, mresult,
                   fpc, wake, windowEnd, rounds, done_result>>
    /\ UNCHANGED <<dialVars, promptVars, confirmVars, errorVars, tagVars>>

\* multiple_wait_for up to its await: one Context.wait_for per event, each
\* with the same timeout, handed to asyncio.wait with that timeout.
StartWaits(timeout, return_when) ==
    /\ tasks' = tasks \o [i \in 1..Len(wpar.events) |-> NewTask(wpar.events[i], timeout)]
    /\ mfirst' = Len(tasks) + 1
    /\ mcall' = [timeout |-> timeout, return_when |-> return_when]
    /\ mdeadline' = IF timeout = NoTimeout THEN NoTimeout ELSE now + timeout
    /\ mpc' = "waiting"
    /\ UNCHANGED mresult

MultipleWaitForStart ==
    /\ wop = "multiple_wait_for"
    /\ mpc = "idle"
    /\ StartWaits(wpar.timeout, wpar.return_when)
    /\ UNCHANGED <<now, wop, wpar, events, fpc, wake, windowEnd, rounds, done_result>>
    /\ UNCHANGED <<dialVars, promptVars, confirmVars, errorVars, tagVars>>

\* The waits the running multiple_wait_for started.
Mine == mfirst..Len(tasks)

\* asyncio.wait's return_when.
ReturnCondition ==
    CASE mcall.return_when = "FIRST_COMPLETED" -> \E t \in Mine : Finished(t)
      [] mcall.return_when = "FIRST_EXCEPTION" ->
           (\E t \in Mine : tasks[t].state = "raised") \/ (\A t \in Mine : Finished(t))
      [] OTHER -> \A t \in Mine : Finished(t)

\* asyncio.wait returns (done, pending); pending tasks are left running.
AsyncioWaitResult ==
    [done |-> {t \in Mine : Finished(t)}, pending |-> {t \in Mine : ~Finished(t)}]

\* asyncio.wait returning because return_when is met.
MultipleWaitForReturn ==
    /\ mpc = "waiting"
    /\ \A t \in Mine : tasks[t].state # "new"
    /\ ReturnCondition
    /\ mresult' = AsyncioWaitResult
    /\ mpc' = "returned"
    /\ UNCHANGED <<now, wop, wpar, tasks, events, mcall, mfirst, mdeadline,
                   fpc, wake, windowEnd, rounds, done_result>>
    /\ UNCHANGED <<dialVars, promptVars, confirmVars, errorVars, tagVars>>

\* asyncio.wait returning because its timeout passed: it returns, it never raises.
MultipleWaitForTimeout ==
    /\ mpc = "waiting"
    /\ \A t \in Mine : tasks[t].state # "new"
    /\ mdeadline # NoTimeout
    /\ now >= mdeadline
    /\ mresult' = AsyncioWaitResult
    /\ mpc' = "returned"
    /\ UNCHANGED <<now, wop, wpar, tasks, events, mcall, mfirst, mdeadline,
                   fpc, wake, windowEnd, rounds, done_result>>
    /\ UNCHANGED <<dialVars, promptVars, confirmVars, errorVars, tagVars>>

\* wait_for_till: if after: await self.release(after)
WaitForTillStart ==
    /\ wop = "wait_for_till"
    /\ fpc = "idle"
    /\ fpc' = "release"
    /\ wake' = now + wpar.after
    /\ UNCHANGED <<now, wop, wpar, tasks, events, mpc, mcall, mfirst, mdeadline,
                   mresult, windowEnd, rounds, done_result>>
    /\ UNCHANGED <<dialVars, promptVars, confirmVars, errorVars, tagVars>>

\* done_result = []; now = time.time() + _for
WaitForTillBegin ==
    /\ fpc = "release"
    /\ now >= wake
    /\ windowEnd' = now + wpar.for
    /\ done_result' = <<>>
    /\ fpc' = "loop"
    /\ UNCHANGED <<now, wop, wpar, tasks, events, mpc, mcall, mfirst, mdeadline,
                   mresult, wake, rounds>>
    /\ UNCHANGED <<dialVars, promptVars, confirmVars, errorVars, tagVars>>

\* time.time() <= now, read on a clock of whole ticks: within the last tick of
\* the window either answer is possible.
InWindow == IF now < windowEnd THEN {TRUE}
            ELSE IF now = windowEnd THEN {TRUE, FALSE} ELSE {FALSE}

\* while time.time() <= now: done, _ = await self.multiple_wait_for(events, ...)
WaitForTillRound ==
    /\ fpc = "loop"
    /\ TRUE \in InWindow
    /\ rounds < MaxRounds
    /\ StartWaits(NoTimeout, "FIRST_COMPLETED")
    /\ rounds' = rounds + 1
    /\ fpc' = "round"
    /\ UNCHANGED <<now, wop, wpar, events, wake, windowEnd, done_result>>
    /\ UNCHANGED <<dialVars, promptVars, confirmVars, errorVars, tagVars>>

\* The loop ends; if not _for: one more multiple_wait_for; return done_result.
WaitForTillLeave ==
    /\ fpc = "loop"
    /\ FALSE \in InWindow
    /\ IF wpar.for = 0
       THEN /\ StartWaits(NoTimeout, "FIRST_COMPLETED")
            /\ fpc' = "last"
       ELSE /\ fpc' = "returned"
            /\ UNCHANGED <<tasks, mpc, mcall, mfirst, mdeadline, mresult>>
    /\ UNCHANGED <<now, wop, wpar, events, wake, windowEnd, rounds, done_result>>
    /\ UNCHANGED <<dialVars, promptVars, confirmVars, errorVars, tagVars>>

\* The results of a set of finished tasks, in task order.
RECURSIVE Results(_, _)
Results(ts, from) ==
    IF from > Len(tasks) THEN <<>>
    ELSE (IF from \in ts THEN <<tasks[from].result>> ELSE <<>>) \o Results(ts, from + 1)

\* __internal_appender(done)
WaitForTillCollect ==
    /\ fpc \in {"round", "last"}
    /\ mpc = "returned"
    /\ done_result' = done_result \o Results(mresult.done, 1)
    /\ mpc' = "idle"
    /\ fpc' = IF fpc = "round" THEN "loop" ELSE "returned"
    /\ UNCHANGED <<now, wop, wpar, tasks, events, mcall, mfirst, mdeadline, mresult,
                   wake, windowEnd, rounds>>
    /\ UNCHANGED <<dialVars, promptVars, confirmVars, errorVars, tagVars>>

\* Something is due or runnable: time does not pass before it has run.
Runnable ==
    \/ \E t \in DOMAIN tasks :
         \/ tasks[t].state = "new"
         \/ tasks[t].state = "listening" /\ tasks[t].deadline # NoTimeout
              /\ now >= tasks[t].deadline
    \/ wop = "multiple_wait_for" /\ mpc = "idle"
    \/ mpc = "waiting" /\ (ReturnCondition \/ (mdeadline # NoTimeout /\ now >= mdeadline))
    \/ wop = "wait_for_till" /\ fpc \in {"idle", "loop"}
    \/ fpc = "release" /\ now >= wake
    \/ fpc \in {"round", "last"} /\ mpc = "returned"

TickWait ==
    /\ wop # "none"
    /\ ~Runnable
    /\ now < WaitMaxTime
    /\ now' = now + 1
    /\ UNCHANGED <<waitVars, dialVars, promptVars, confirmVars, errorVars, tagVars>>

NextWait ==
    \/ \E t \in DOMAIN tasks : WaitForStart(t)
    \/ \E name \in EventNames, ok \in BOOLEAN : Dispatch(name, ok)
    \/ \E t \in DOMAIN tasks : WaitForTimeout(t)
    \/ MultipleWaitForStart
    \/ MultipleWaitForReturn
    \/ MultipleWaitForTimeout
    \/ WaitForTillStart
    \/ WaitForTillBegin
    \/ WaitForTillRound
    \/ WaitForTillLeave
    \/ WaitForTillCollect
    \/ TickWait

SpecWait == InitWait /\ [][NextWait]_vars

\* -------------------------------------------- claims about the waiting helpers
\* A wait that ended without its event: its timeout passed.
Expired(t) == Finished(t) /\ tasks[t].result = 0

C6_UnfinishedWaitsCancelled ==
    (wop = "multiple_wait_for" /\ mpc = "returned") =>
        \A t \in Mine : Finished(t) \/ tasks[t].state = "cancelled"

\* C7 (as claimed): multiple_wait_for whose timeout passed with none of its
\* events triggered raises asyncio.TimeoutError: it does not return.
C7_RaisesWhenNothingTriggered ==
    (/\ wop = "multiple_wait_for"
     /\ mcall.timeout # NoTimeout
     /\ now >= mdeadline
     /\ \A t \in Mine : tasks[t].result = 0) => mpc \in {"idle", "waiting", "raised"}

\* C8 (as claimed): wait_for_till(events, _for=d), d > 0, is not waiting any
\* more once the d seconds are over, and the records it returns are those of
\* events triggered within them.
C8_ReturnsWhenWindowEnds ==
    (wop = "wait_for_till" /\ wpar.for > 0) =>
        /\ fpc = "round" => now <= windowEnd
        /\ fpc = "returned" =>
             \A i \in 1..Len(done_result) : events[done_result[i]].at <= windowEnd

\* ============================================================================
\* Context.prompt and ConfirmationView
\* ============================================================================

\* ---------------------------------------------------------------- bounds
\* Interactions with the view in one run.
MaxPresses == 3
\* The clock of prompt and confirm stops advancing here.
AskMaxTime == 2

\* author_id = author_id or self.author.id, and somebody else.
AuthorId == "author"
Users == {"author", "other"}
Buttons == {"Yes", "No"}
\* self.value = True / self.value = False
ButtonValue(b) == IF b = "Yes" THEN "True" ELSE "False"

PromptArgs == [timeout : {NoTimeout} \cup (1..MaxTimeout), delete_after : BOOLEAN]

InitPrompt ==
    /\ now = 0
    /\ ppar \in PromptArgs
    /\ ppc = "start"
    /\ vvalue = "None"
    /\ vstopped = FALSE
    /\ vexpiry = NoTimeout
    /\ running = <<>>
    /\ pmessage = "none"
    /\ presult = "None"
    /\ presses = <<>>
    /\ NoDial /\ NoWait /\ NoConfirm /\ NoError /\ NoTags

\* The view's timer, set when the view is sent and after each interaction
\* the view lets through.
Expiry == IF ppar.timeout = NoTimeout THEN NoTimeout ELSE now + ppar.timeout

\* view = ConfirmationView(...); view.message = await self.send(...); view.wait()
PromptSend ==
    /\ ppc = "start"
    /\ pmessage' = "shown"
    /\ vexpiry' = Expiry
    /\ ppc' = "waiting"
    /\ UNCHANGED <<now, ppar, vvalue, vstopped, running, presult, presses>>
    /\ UNCHANGED <<dialVars, waitVars, confirmVars, errorVars, tagVars>>

\* interaction_check letting everybody through.
InteractionCheckAnyone(u) == TRUE

\* ConfirmationView.interaction_check
interaction_check(u) == u = AuthorId

\* Somebody presses a button of the shown view: interaction_check, and for
\* the author the button's callback up to its first await.
Interaction(u, b) ==
    /\ ppc = "waiting"
    /\ ~vstopped
    /\ pmessage = "shown"
    /\ Len(presses) < MaxPresses
    /\ presses' = Append(presses, [user |-> u, button |-> b])
    /\ IF interaction_check(u)
       THEN /\ vvalue' = ButtonValue(b)
            /\ running' = Append(running, "defer")
            /\ vexpiry' = Expiry
       ELSE UNCHANGED <<vvalue, running, vexpiry>>
    /\ UNCHANGED <<now, ppar, ppc, vstopped, pmessage, presult>>
    /\ UNCHANGED <<dialVars, waitVars, confirmVars, errorVars, tagVars>>

Without(seq, i) == [j \in 1..(Len(seq) - 1) |-> IF j < i THEN seq[j] ELSE seq[j + 1]]

\* await interaction.response.defer()
CallbackDeferred(i) ==
    /\ running[i] = "defer"
    /\ running' = [running EXCEPT ![i] = IF ppar.delete_after THEN "delete" ELSE "stop"]
    /\ UNCHANGED <<now, ppar, ppc, vvalue, vstopped, vexpiry, pmessage, presult, presses>>
    /\ UNCHANGED <<dialVars, waitVars, confirmVars, errorVars, tagVars>>

\* interaction.response.defer() raising (an HTTPException): the callback ends
\* there, without self.stop().
CallbackFailed(i) ==
    /\ running[i] = "defer"
    /\ running' = Without(running, i)
    /\ UNCHANGED <<now, ppar, ppc, vvalue, vstopped, vexpiry, pmessage, presult, presses>>
    /\ UNCHANGED <<dialVars, waitVars, confirmVars, errorVars, tagVars>>

\* await interaction.delete_original_message(): NotFound if it is gone already,
\* and then the callback ends without self.stop().
CallbackDeleted(i) ==
    /\ running[i] = "delete"
    /\ IF pmessage = "shown"
       THEN /\ pmessage' = "deleted"
            /\ running' = [running EXCEPT ![i] = "stop"]
       ELSE /\ running' = Without(running, i)
            /\ UNCHANGED pmessage
    /\ UNCHANGED <<now, ppar, ppc, vvalue, vstopped, vexpiry, presult, presses>>
    /\ UNCHANGED <<dialVars, waitVars, confirmVars, errorVars, tagVars>>

\* self.stop()
CallbackStopped(i) ==
    /\ running[i] = "stop"
    /\ running' = Without(running, i)
    /\ vstopped' = TRUE
    /\ UNCHANGED <<now, ppar, ppc, vvalue, vexpiry, pmessage, presult, presses>>
    /\ UNCHANGED <<dialVars, waitVars, confirmVars, errorVars, tagVars>>

\* The view's timeout: the view finishes and on_timeout runs.
ViewTimeout ==
    /\ ppc = "waiting"
    /\ ~vstopped
    /\ vexpiry # NoTimeout
    /\ now >= vexpiry
    /\ vstopped' = TRUE
    /\ pmessage' = IF ppar.delete_after /\ pmessage = "shown" THEN "deleted" ELSE pmessage
    /\ UNCHANGED <<now, ppar, ppc, vvalue, vexpiry, running, presult, presses>>
    /\ UNCHANGED <<dialVars, waitVars, confirmVars, errorVars, tagVars>>

\* await view.wait(); return view.value
PromptReturn ==
    /\ ppc = "waiting"
    /\ vstopped
    /\ presult' = vvalue
    /\ ppc' = "returned"
    /\ UNCHANGED <<now, ppar, vvalue, vstopped, vexpiry, running, pmessage, presses>>
    /\ UNCHANGED <<dialVars, waitVars, confirmVars, errorVars, tagVars>>

TickPrompt ==
    /\ ppc = "waiting"
    /\ ~vstopped
    /\ running = <<>>
    /\ vexpiry = NoTimeout \/ now < vexpiry
    /\ now < AskMaxTime
    /\ now' = now + 1
    /\ UNCHANGED <<promptVars, dialVars, waitVars, confirmVars, errorVars, tagVars>>

NextPrompt ==
    \/ PromptSend
    \/ \E u \in Users, b \in Buttons : Interaction(u, b)
    \/ \E i \in DOMAIN running : CallbackDeferred(i)
    \/ \E i \in DOMAIN running : CallbackFailed(i)
    \/ \E i \in DOMAIN running : CallbackDeleted(i)
    \/ \E i \in DOMAIN running : CallbackStopped(i)
    \/ ViewTimeout
    \/ PromptReturn
    \/ TickPrompt

SpecPrompt == InitPrompt /\ [][NextPrompt]_vars

\* ------------------------------------------------------- claims about prompt
RECURSIVE LastBy(_, _)
\* The value of the last button the author pressed, "None" if none.
LastBy(seq, u) ==
    IF seq = <<>> THEN "None"
    ELSE IF seq[Len(seq)].user = u THEN ButtonValue(seq[Len(seq)].button)
    ELSE LastBy(SubSeq(seq, 1, Len(seq) - 1), u)

MaxReactions == 2

\* CONFIRM_REACTIONS and an emoji outside them.
CONFIRM_REACTIONS == {"thumbs_up", "thumbs_down"}
Emoji == {"thumbs_up", "thumbs_down", "heart"}
Messages == {"prompt", "elsewhere"}

ConfirmArgs == [timeout : {NoTimeout} \cup (1..MaxTimeout), delete_after : BOOLEAN]

InitConfirm ==
    /\ now = 0
    /\ cpar \in ConfirmArgs
    /\ cpc = "start"
    /\ cdeadline = NoTimeout
    /\ cmessage = "none"
    /\ cresult = "None"
    /\ reactions = <<>>
    /\ NoDial /\ NoWait /\ NoPrompt /\ NoError /\ NoTags

\* message = await channel.send(...); bulk_add_reactions begins.
ConfirmSend ==
    /\ cpc = "start"
    /\ cmessage' = "sent"
    /\ cpc' = "reacting"
    /\ UNCHANGED <<now, cpar, cdeadline, cresult, reactions>>
    /\ UNCHANGED <<dialVars, waitVars, promptVars, errorVars, tagVars>>

\* bulk_add_reactions is over: bot.wait_for("raw_reaction_add", ...) registered.
ConfirmWait ==
    /\ cpc = "reacting"
    /\ cdeadline' = IF cpar.timeout = NoTimeout THEN NoTimeout ELSE now + cpar.timeout
    /\ cpc' = "waiting"
    /\ UNCHANGED <<now, cpar, cmessage, cresult, reactions>>
    /\ UNCHANGED <<dialVars, waitVars, promptVars, errorVars, tagVars>>

\* The check with the user test left out.
ConfirmCheckAnyUser(r) ==
    r.message = "prompt" /\ r.emoji \in CONFIRM_REACTIONS

\* def check(payload)
ConfirmCheck(r) ==
    r.message = "prompt" /\ r.user = AuthorId /\ r.emoji \in CONFIRM_REACTIONS

\* finally: if delete_after: await message.delete(delay=0)
AfterConfirm == IF cpar.delete_after THEN "deleted" ELSE cmessage

\* A raw_reaction_add is dispatched; the registered wait_for takes it if the
\* check passes: return str(payload.emoji) == THUMBS UP, then the finally.
Reaction(u, m, e) ==
    /\ cpc \in {"reacting", "waiting"}
    /\ Len(reactions) < MaxReactions
    /\ LET r == [user |-> u, message |-> m, emoji |-> e, heard |-> cpc = "waiting"]
       IN /\ reactions' = Append(reactions, r)
          /\ IF cpc = "waiting" /\ ConfirmCheck(r)
             THEN /\ cresult' = IF e = "thumbs_up" THEN "True" ELSE "False"
                  /\ cmessage' = AfterConfirm
                  /\ cpc' = "returned"
             ELSE UNCHANGED <<cresult, cmessage, cpc>>
    /\ UNCHANGED <<now, cpar, cdeadline>>
    /\ UNCHANGED <<dialVars, waitVars, promptVars, errorVars, tagVars>>

\* except asyncio.TimeoutError: return None, then the finally.
ConfirmTimeout ==
    /\ cpc = "waiting"
    /\ cdeadline # NoTimeout
    /\ now >= cdeadline
    /\ cresult' = "None"
    /\ cmessage' = AfterConfirm
    /\ cpc' = "returned"
    /\ UNCHANGED <<now, cpar, cdeadline, reactions>>
    /\ UNCHANGED <<dialVars, waitVars, promptVars, errorVars, tagVars>>

TickConfirm ==
    /\ cpc = "waiting"
    /\ cdeadline = NoTimeout \/ now < cdeadline
    /\ now < AskMaxTime
    /\ now' = now + 1
    /\ UNCHANGED <<confirmVars, dialVars, waitVars, promptVars, errorVars, tagVars>>

NextConfirm ==
    \/ ConfirmSend
    \/ ConfirmWait
    \/ \E u \in Users \cup {BotName}, m \in Messages, e \in Emoji : Reaction(u, m, e)
    \/ ConfirmTimeout
    \/ TickConfirm

SpecConfirm == InitConfirm /\ [][NextConfirm]_vars

\* ------------------------------------------------------ claims about confirm
Qualifying(r) == r.user = AuthorId /\ r.message = "prompt" /\ r.heard
LastReaction == reactions[Len(reactions)]
Returned == cpc = "returned"

ErrTick == 10
ErrMaxTime == 40

\* wait_for("message_delete", ..., timeout=30)
DeleteWait == 30

\* The invoking message (self.message) and another message of the channel.
EMsgs == {"invoking", "other"}

\* What the bot may do in the channel, whether the author's DMs are open, and
\* the embed passed by the caller.
ErrorArgs == [perms : {"ok", "no_embed_links", "no_send_messages"},
              dm : BOOLEAN,
              embed : {"none", "plain", "colored"}]

InitError ==
    /\ now = 0
    /\ epar \in ErrorArgs
    /\ epc = "sending"
    /\ emsg = "none"
    /\ ecolor = "none"
    /\ edeadline = NoTimeout
    /\ eresult = "None"
    /\ deletedIn = [m \in EMsgs |-> "no"]
    /\ NoDial /\ NoWait /\ NoPrompt /\ NoConfirm /\ NoTags

\* if isinstance(embed, discord.Embed) and not embed.color: red; Context.send
\* sets bot.color only on an embed that still has none.
EmbedColor(embed) ==
    IF embed = "none" THEN "none"
    ELSE IF embed = "plain" THEN "red"
    ELSE "own"

\* Context.send: without Send Messages and Embed Links it DMs the author and
\* returns None; if the DM is Forbidden the suppress block is left without
\* returning and super().send is tried all the same.
SendOutcome(par) ==
    IF par.perms = "ok" THEN "message"
    ELSE IF par.dm THEN "none"
    ELSE IF par.perms = "no_send_messages" THEN "forbidden"
    ELSE "message"

\* msg = await self.send(*args, **kwargs); if it is a Message, wait_for starts.
ErrorSend ==
    /\ epc = "sending"
    /\ LET out == SendOutcome(epar)
       IN /\ emsg' = IF out = "message" THEN "sent" ELSE "none"
          /\ ecolor' = IF out = "message" THEN EmbedColor(epar.embed) ELSE "none"
          /\ epc' = IF out = "message" THEN "waiting"
                    ELSE IF out = "none" THEN "done" ELSE "raised"
          /\ edeadline' = IF out = "message" THEN now + DeleteWait ELSE NoTimeout
    /\ UNCHANGED <<now, epar, eresult, deletedIn>>
    /\ UNCHANGED <<dialVars, waitVars, promptVars, confirmVars, tagVars>>

\* The check with the message test left out.
ErrorCheckAnyMessage(m) == m \in EMsgs

\* check=lambda m: m.id == self.message.id
ErrorCheck(m) == m = "invoking"

\* A message of the channel is deleted (on_message_delete); a waiting error
\* whose check passes goes on: return await msg.delete(delay=0).
MessageDelete(m) ==
    /\ epc # "raised"
    /\ deletedIn[m] = "no"
    /\ deletedIn' = [deletedIn EXCEPT ![m] = epc]
    /\ IF epc = "waiting" /\ ErrorCheck(m)
       THEN /\ emsg' = "deleted"
            /\ eresult' = "None"
            /\ epc' = "done"
       ELSE UNCHANGED <<emsg, eresult, epc>>
    /\ UNCHANGED <<now, epar, ecolor, edeadline>>
    /\ UNCHANGED <<dialVars, waitVars, promptVars, confirmVars, tagVars>>

\* except asyncio.TimeoutError: return msg
ErrorTimedOut ==
    /\ epc = "waiting"
    /\ now >= edeadline
    /\ eresult' = "msg"
    /\ epc' = "done"
    /\ UNCHANGED <<now, epar, emsg, ecolor, edeadline, deletedIn>>
    /\ UNCHANGED <<dialVars, waitVars, promptVars, confirmVars, tagVars>>

TickError ==
    /\ epc \in {"sending", "waiting"}
    /\ epc = "waiting" => now < edeadline
    /\ now < ErrMaxTime
    /\ now' = now + ErrTick
    /\ UNCHANGED <<errorVars, dialVars, waitVars, promptVars, confirmVars, tagVars>>

NextError ==
    \/ ErrorSend
    \/ \E m \in EMsgs : MessageDelete(m)
    \/ ErrorTimedOut
    \/ TickError

SpecError == InitError /\ [][NextError]_vars

\* -------------------------------------------------------- claims about error
\* C11: error sends the message; if the invoking message is deleted while error
\* waits (at most 30 seconds from the send) the error message is deleted; if 30
\* seconds pass without that, the error message stays and is returned; if send
\* produced no message, nothing is waited for.
C11_ErrorFollowsInvokingMessage ==
    /\ epc = "waiting" =>
         (emsg = "sent" /\ eresult = "None" /\ deletedIn["invoking"] # "waiting")
    /\ epc = "raised" => (emsg = "none" /\ edeadline = NoTimeout)
    /\ epc = "done" =>
         IF SendOutcome(epar) # "message"
         THEN emsg = "none" /\ eresult = "None" /\ edeadline = NoTimeout
         ELSE IF deletedIn["invoking"] = "waiting"
         THEN emsg = "deleted" /\ eresult = "None"
         ELSE emsg = "sent" /\ eresult = "msg" /\ now >= edeadline
C11_Witness ==
    /\ epc = "done" /\ emsg = "deleted" /\ deletedIn["invoking"] = "waiting"
    /\ deletedIn["other"] = "waiting" /\ now > 0

\* ============================================================= tags (method.py)
\* Handler invocations in one run.
MaxOps == 2

TagNames == {"cat", "dog"}
TagAuthors == {"alice", "bob"}

\* A tag document (its text is the text of that tag), and find_one's None.
NoTag == [found |-> FALSE, owner |-> "none", nsfw |-> FALSE, count |-> 0]
TagDoc(owner, nsfw) == [found |-> TRUE, owner |-> owner, nsfw |-> nsfw, count |-> 0]
TagDocs == {NoTag} \cup {TagDoc(o, n) : o \in TagAuthors, n \in BOOLEAN}

\* The collection as earlier invocations left it.
InitTags ==
    /\ now = 0
    /\ collection \in [TagNames -> TagDocs]
    /\ spc = "idle" /\ spar = <<>> /\ sdata = NoTag
    /\ dpc = "idle" /\ dpar = <<>> /\ ddata = NoTag
    /\ outbox = <<>>
    /\ ops = 0
    /\ NoDial /\ NoWait /\ NoPrompt /\ NoConfirm /\ NoError

\* collection.find_one({"id": id})
find_one(id) == IF id \in TagNames THEN collection[id] ELSE NoTag

\* A message of a handler: which handler, about which tag, what it says, how it
\* was sent, and for _show_tag the nsfw flag it read and ctx.channel.nsfw.
Said(op, tag, kind, via, nsfw, channel_nsfw) ==
    [op |-> op, tag |-> tag, kind |-> kind, via |-> via,
     nsfw |-> nsfw, channel_nsfw |-> channel_nsfw]
Reply(op, tag, kind) == Said(op, tag, kind, "reply", FALSE, FALSE)

\* ------------------------------------------------------------------ _show_tag
\* The branches of _show_tag with the nsfw test left out.
ShowOutcomeIgnoringNsfw(data, channel_nsfw, msg_ref) ==
    IF data.found
    THEN [kind |-> "text", via |-> IF msg_ref THEN "msg_ref.reply" ELSE "send"]
    ELSE [kind |-> "no_tag", via |-> "reply"]

\* The branches of _show_tag: what is sent and how.
ShowOutcome(data, channel_nsfw, msg_ref) ==
    IF data.found
    THEN IF ~data.nsfw
         THEN [kind |-> "text", via |-> IF msg_ref THEN "msg_ref.reply" ELSE "send"]
         ELSE IF channel_nsfw
         THEN [kind |-> "text", via |-> IF msg_ref THEN "msg_ref.reply" ELSE "send"]
         ELSE [kind |-> "nsfw_only", via |-> "reply"]
    ELSE [kind |-> "no_tag", via |-> "reply"]

\* data := await collection.find_one({"id": tag})
ShowFind(tag, author, channel_nsfw, msg_ref) ==
    /\ spc = "idle"
    /\ ops < MaxOps
    /\ spar' = [tag |-> tag, author |-> author, channel_nsfw |-> channel_nsfw,
                msg_ref |-> msg_ref]
    /\ sdata' = find_one(tag)
    /\ spc' = "found"
    /\ ops' = ops + 1
    /\ UNCHANGED <<now, collection, dpc, dpar, ddata, outbox>>
    /\ UNCHANGED <<dialVars, waitVars, promptVars, confirmVars, errorVars>>

\* The one message of the branch taken.
ShowSend ==
    /\ spc = "found"
    /\ LET o == ShowOutcome(sdata, spar.channel_nsfw, spar.msg_ref)
       IN outbox' = Append(outbox, Said("show", spar.tag, o.kind, o.via,
                                  sdata.nsfw, spar.channel_nsfw))
    /\ spc' = "sent"
    /\ UNCHANGED <<now, collection, spar, sdata, dpc, dpar, ddata, ops>>
    /\ UNCHANGED <<dialVars, waitVars, promptVars, confirmVars, errorVars>>

\* collection.update_one({"id": id}, {"$inc": {"count": 1}}): no upsert.
update_count(id) ==
    [t \in TagNames |-> IF t = id /\ collection[t].found
                        THEN [collection[t] EXCEPT !.count = @ + 1]
                        ELSE collection[t]]

\* await collection.update_one({"id": tag}, {"$inc": {"count": 1}})
ShowCount ==
    /\ spc = "sent"
    /\ collection' = update_count(spar.tag)
    /\ spc' = "idle"
    /\ UNCHANGED <<now, spar, sdata, dpc, dpar, ddata, outbox, ops>>
    /\ UNCHANGED <<dialVars, waitVars, promptVars, confirmVars, errorVars>>

\* ---------------------------------------------------------------- _delete_tag
\* The filter of delete_one is {"id": tags}: the imported database object,
\* which is the id of no document.
TagsObject == "utilities.database.tags"

\* collection.delete_one({"id": id})
delete_one(id) == [t \in TagNames |-> IF t = id THEN NoTag ELSE collection[t]]

\* data := await collection.find_one({"id": tag})
DeleteFind(tag, author) ==
    /\ dpc = "idle"
    /\ ops < MaxOps
    /\ dpar' = [tag |-> tag, author |-> author]
    /\ ddata' = find_one(tag)
    /\ dpc' = "found"
    /\ ops' = ops + 1
    /\ UNCHANGED <<now, collection, spc, spar, sdata, outbox>>
    /\ UNCHANGED <<dialVars, waitVars, promptVars, confirmVars, errorVars>>

\* Not the owner, or no such tag: one reply and the handler is over.
DeleteRefuse ==
    /\ dpc = "found"
    /\ ~(ddata.found /\ ddata.owner = dpar.author)
    /\ outbox' = Append(outbox, Reply("delete", dpar.tag,
                                IF ddata.found THEN "not_owner" ELSE "no_tag"))
    /\ dpc' = "idle"
    /\ UNCHANGED <<now, collection, spc, spar, sdata, dpar, ddata, ops>>
    /\ UNCHANGED <<dialVars, waitVars, promptVars, confirmVars, errorVars>>

\* await collection.delete_one({"id": tags}): the driver takes the filter and
\* deletes what matches it.
DeleteOneDone ==
    /\ dpc = "found"
    /\ ddata.found /\ ddata.owner = dpar.author
    /\ collection' = delete_one(TagsObject)
    /\ dpc' = "deleted"
    /\ UNCHANGED <<now, spc, spar, sdata, dpar, ddata, outbox, ops>>
    /\ UNCHANGED <<dialVars, waitVars, promptVars, confirmVars, errorVars>>

\* await collection.delete_one({"id": tags}): the driver cannot encode the
\* filter and raises; the handler ends without a reply.
DeleteOneRaises ==
    /\ dpc = "found"
    /\ ddata.found /\ ddata.owner = dpar.author
    /\ dpc' = "raised"
    /\ UNCHANGED <<now, collection, spc, spar, sdata, dpar, ddata, outbox, ops>>
    /\ UNCHANGED <<dialVars, waitVars, promptVars, confirmVars, errorVars>>

\* await ctx.reply("... tag deleted successfully")
DeleteReply ==
    /\ dpc = "deleted"
    /\ outbox' = Append(outbox, Reply("delete", dpar.tag, "deleted"))
    /\ dpc' = "idle"
    /\ UNCHANGED <<now, collection, spc, spar, sdata, dpar, ddata, ops>>
    /\ UNCHANGED <<dialVars, waitVars, promptVars, confirmVars, errorVars>>

\* The exception has left the handler; the next invocation may come.
DeleteRaised ==
    /\ dpc = "raised"
    /\ dpc' = "idle"
    /\ UNCHANGED <<now, collection, spc, spar, sdata, dpar, ddata, outbox, ops>>
    /\ UNCHANGED <<dialVars, waitVars, promptVars, confirmVars, errorVars>>

\* ------------------------------------------------ _create_tag, _toggle_nsfw
\* What the author answered to the Prompt view: view.value.
PromptValues == {"None", "True", "False"}

\* _create_tag: an existing name is refused; otherwise the author is asked
\* whether the tag is NSFW. With no answer the handler reaches msg.reply with
\* msg never assigned and ends there (NameError); with an answer the document
\* is inserted and the success reply sent.
CreateTag(tag, author, value) ==
    /\ ops < MaxOps
    /\ ops' = ops + 1
    /\ IF find_one(tag).found
       THEN /\ outbox' = Append(outbox, Reply("create", tag, "exists"))
            /\ UNCHANGED collection
       ELSE IF value = "None"
       THEN /\ outbox' = Append(outbox, Said("create", tag, "ask_nsfw", "send", FALSE, FALSE))
            /\ UNCHANGED collection
       ELSE /\ collection' = [collection EXCEPT ![tag] = TagDoc(author, value = "True")]
            /\ outbox' = outbox \o <<Said("create", tag, "ask_nsfw", "send", FALSE, FALSE),
                                     Reply("create", tag, "created")>>
    /\ UNCHANGED <<now, spc, spar, sdata, dpc, dpar, ddata>>
    /\ UNCHANGED <<dialVars, waitVars, promptVars, confirmVars, errorVars>>

\* _toggle_nsfw: the owner flips the nsfw flag of the tag.
ToggleNsfw(tag, author) ==
    /\ ops < MaxOps
    /\ ops' = ops + 1
    /\ LET data == find_one(tag)
       IN IF ~data.found
          THEN /\ outbox' = Append(outbox, Reply("toggle", tag, "no_tag"))
               /\ UNCHANGED collection
          ELSE IF data.owner # author
          THEN /\ outbox' = Append(outbox, Reply("toggle", tag, "not_owner"))
               /\ UNCHANGED collection
          ELSE /\ collection' = [collection EXCEPT ![tag].nsfw = ~data.nsfw]
               /\ outbox' = Append(outbox, Reply("toggle", tag, "toggled"))
    /\ UNCHANGED <<now, spc, spar, sdata, dpc, dpar, ddata>>
    /\ UNCHANGED <<dialVars, waitVars, promptVars, confirmVars, errorVars>>

NextTags ==
    \/ \E t \in TagNames, a \in TagAuthors, n \in BOOLEAN, r \in BOOLEAN :
         ShowFind(t, a, n, r)
    \/ ShowSend
    \/ ShowCount
    \/ \E t \in TagNames, a \in TagAuthors : DeleteFind(t, a)
    \/ DeleteRefuse
    \/ DeleteOneDone
    \/ DeleteOneRaises
    \/ DeleteReply
    \/ DeleteRaised
    \/ \E t \in TagNames, a \in TagAuthors, v \in PromptValues : CreateTag(t, a, v)
    \/ \E t \in TagNames, a \in TagAuthors : ToggleNsfw(t, a)

SpecTags == InitTags /\ [][NextTags]_vars

\* --------------------------------------------------------- claims about tags
\* The i-th message is the success reply of a _delete_tag and no tag of that
\* name has been created since.
DeletedAt(i) ==
    /\ outbox[i].op = "delete" /\ outbox[i].kind = "deleted"
    /\ \A j \in (i + 1)..Len(outbox) :
         ~(outbox[j].kind = "created" /\ outbox[j].tag = outbox[i].tag)

\* C12 (as claimed): after _delete_tag replied 'tag deleted successfully' to the
\* owner, no tag of that name is in the server's collection (until one is
\* created again), so a _show_tag that looks it up finds none.
C12_DeletedTagIsGone ==
    \A i \in 1..Len(outbox) :
        DeletedAt(i) =>
            /\ ~collection[outbox[i].tag].found
            /\ (i = Len(outbox) /\ spc = "found" /\ spar.tag = outbox[i].tag)
                  => ~sdata.found

\* C13: _show_tag never sends the text of a tag it read as nsfw into a channel
\* not marked NSFW, neither by msg_ref.reply nor by send; what it sends there
\* is the 'only in NSFW marked channel' notice, as a reply.
C13_NsfwTextOnlyInNsfwChannel ==
    /\ \A i \in 1..Len(outbox) :
         (outbox[i].op = "show" /\ outbox[i].nsfw /\ ~outbox[i].channel_nsfw)
            => (outbox[i].kind = "nsfw_only" /\ outbox[i].via = "reply")
    /\ (spc = "sent" /\ sdata.found /\ sdata.nsfw /\ ~spar.channel_nsfw) =>
         \E i \in 1..Len(outbox) :
             outbox[i] = Said("show", spar.tag, "nsfw_only", "reply", TRUE, FALSE)
C13_Witness ==
    /\ spc = "sent" /\ sdata.found /\ sdata.nsfw /\ ~spar.channel_nsfw
    /\ spar.msg_ref /\ Len(outbox) = 1 /\ outbox[1].kind = "nsfw_only"
====
